---- MODULE Spec2Model ----
(***************************************************************************)
(* picap: a capture session (live interface or pcap file) feeds a channel  *)
(* of packets; NetSource.Record counts the call, receives one packet from  *)
(* the channel and turns it into a flat Packet record with reifyPacket.    *)
(*                                                                         *)
(* Two specifications are defined over the same variables:                 *)
(*   SpecReify  the packet decoder reifyPacket applied to every packet of  *)
(*              a bounded packet universe;                                 *)
(*   Spec       Main.Run / Main.NewNetSource, the packet-source goroutine  *)
(*              that fills the channel, and the workers calling Record.    *)
(* num is a uint64 in the program; the runs below stay far from 2^64, so   *)
(* the counter is modelled without wrap-around.                            *)
(***************************************************************************)
EXTENDS Integers, Sequences, FiniteSets, TLC

VARIABLES
    rpkt,       \* SpecReify: the packet handed to reifyPacket
    rout,       \* SpecReify: what reifyPacket returned for it, or NotRun
    offline,    \* m.Filename != ""
    nworkers,   \* number of goroutines of the caller that call Record
    file,       \* the packets the capture handle will deliver, in order
    runPc,      \* position of Main.Run / Main.NewNetSource
    runErr,     \* the error Main.Run returned, "" while none
    handle,     \* the pcap handle: "none", "open" or "filtered"
    hpos,       \* packets read from the capture handle so far
    producer,   \* the goroutine started by packetSource.Packets()
    packets,    \* NetSource.packets: the channel's content, as indices in file
    closed,     \* whether the channel has been closed
    num,        \* *NetSource.num
    wpc,        \* per worker: position inside Record
    wnum,       \* per worker: the local variable num of Record
    wpkt,       \* per worker: index in file of the packet received, 0 for nil
    started,    \* Record calls started so far
    observed,   \* the values of the local num, in the order they were loaded
    taken,      \* indices (into file) of the packets received by Record calls
    returned,   \* what the Record calls returned, in order of return
    crashed     \* the process died of a panic

rvars == <<rpkt, rout>>
pvars == <<offline, nworkers, file, runPc, runErr, handle, hpos, producer, packets,
           closed, num, wpc, wnum, wpkt, started, observed, taken, returned,
           crashed>>
vars == <<rvars, pvars>>

(***************************************************************************)
(* Bounds.                                                                 *)
(***************************************************************************)
MaxLen == 2
MaxPackets == 2
MaxWorkers == 2
MaxCalls == MaxPackets + 1

(***************************************************************************)
(* Packets as gopacket presents them to reifyPacket.                       *)
(***************************************************************************)
\* A nil error.
Nil == "nil"

\* The nil gopacket.Packet, which a receive from the closed channel yields.
NilPacket == [nil |-> TRUE]

FlagNames == {"FIN", "SYN", "RST", "PSH", "ACK", "URG", "ECE", "CWR", "NS"}

NoFlags == [f \in FlagNames |-> FALSE]

\* pkt.ErrorLayer(): no error layer, an error layer whose Error() is nil, or
\* an error layer carrying a decode error.
ErrorLayers == {"none", "nilerr", "fail"}

\* Application payloads, as sequences of lines, each line a sequence of the
\* space/colon separated fields that net/http's reader splits it into.
\* One line that is no request line (a TLS record, say).
BinaryPayload == << <<"0x160301">> >>
GetFull == << <<"GET", "/", "HTTP/1.1">>, <<"Host", "example.com">>,
              <<"User-Agent", "curl">>, <<>> >>
GetHostOnly == << <<"GET", "/index", "HTTP/1.1">>, <<"Host", "example.com">>, <<>> >>
GetAbsolute == << <<"GET", "http://pilosa.com/", "HTTP/1.1">>,
                  <<"Host", "example.com">>, <<>> >>
PostBare == << <<"POST", "/", "HTTP/1.0">>, <<>> >>
Truncated == << <<"GET", "/", "HTTP/1.1">>, <<"Host", "example.com">> >>
Response == << <<"HTTP/1.1", "200", "OK">>, <<"Server", "nginx">>, <<>> >>
BadVersion == << <<"GET", "/", "FTP/1.0">>, <<>> >>
BadHeader == << <<"GET", "/", "HTTP/1.1">>, <<"garbage">>, <<>> >>

Payloads == {BinaryPayload, GetFull, GetHostOnly, GetAbsolute, PostBare,
             Truncated, Response, BadVersion, BadHeader}

NoLayer == [present |-> FALSE, proto |-> "", src |-> "", dst |-> ""]

NetLayers == {[present |-> TRUE, proto |-> "IPv4", src |-> "10.0.0.1", dst |-> "10.0.0.2"],
              [present |-> TRUE, proto |-> "IPv6", src |-> "fe80::1", dst |-> "fe80::2"]}

TransLayers == {[present |-> TRUE, proto |-> "TCP", src |-> "49152", dst |-> "80"],
                [present |-> TRUE, proto |-> "UDP", src |-> "5353", dst |-> "53"]}

NoApp == [present |-> FALSE, proto |-> "", payload |-> <<>>]

AppLayers == {[present |-> TRUE, proto |-> "Payload", payload |-> b] : b \in Payloads}

\* A network layer may be missing, a transport layer needs a network layer
\* below it, and only a TCP layer carries flags.
RawPackets ==
    {p \in [err : ErrorLayers, length : 1..MaxLen,
            net : NetLayers \cup {NoLayer}, trans : TransLayers \cup {NoLayer},
            tcp : [FlagNames -> BOOLEAN], app : AppLayers \cup {NoApp}] :
        /\ (~p.net.present => ~p.trans.present)
        /\ (p.trans.proto # "TCP" => p.tcp = NoFlags)}

(***************************************************************************)
(* net/http ReadRequest, as far as reifyPacket depends on it.              *)
(***************************************************************************)
ValidMethods == {"GET", "POST", "PUT", "HEAD", "DELETE", "OPTIONS"}
HTTPVersions == {"HTTP/1.0", "HTTP/1.1"}

\* Host part of an absolute request URI, "" for a path.
URLHost(uri) == IF uri = "http://pilosa.com/" THEN "pilosa.com" ELSE ""

\* Index of the first blank line, 0 if there is none.
BlankAt(lines) ==
    LET idx == {i \in 1..Len(lines) : lines[i] = <<>>}
    IN IF idx = {} THEN 0 ELSE CHOOSE i \in idx : \A j \in idx : i <= j

HeaderGet(lines, last, key) ==
    LET idx == {i \in 2..last : lines[i][1] = key}
    IN IF idx = {} THEN ""
       ELSE lines[CHOOSE i \in idx : \A j \in idx : i <= j][2]

ReadRequest(lines) ==
    LET bad == [ok |-> FALSE, Method |-> "", Host |-> "", UserAgent |-> ""]
        blank == BlankAt(lines)
    IN IF lines = <<>> THEN bad
       ELSE IF Len(lines[1]) # 3 THEN bad
       ELSE IF lines[1][1] \notin ValidMethods THEN bad
       ELSE IF lines[1][3] \notin HTTPVersions THEN bad
       ELSE IF blank = 0 THEN bad
       ELSE IF \E i \in 2..(blank - 1) : Len(lines[i]) # 2 THEN bad
       ELSE [ok |-> TRUE,
             Method |-> lines[1][1],
             Host |-> IF URLHost(lines[1][2]) # "" THEN URLHost(lines[1][2])
                      ELSE HeaderGet(lines, blank - 1, "Host"),
             UserAgent |-> HeaderGet(lines, blank - 1, "User-Agent")]

(***************************************************************************)
(* reifyPacket.                                                            *)
(***************************************************************************)
\* pr := &Packet{}
EmptyPacket ==
    [Length |-> 0, NetProto |-> "", NetSrc |-> "", NetDst |-> "",
     TransProto |-> "", TransSrc |-> "", TransDst |-> "",
     TCP |-> NoFlags, AppProto |-> "",
     HTTP |-> [Hostname |-> "", UserAgent |-> "", Method |-> ""]]

Return(pr, err) == [panic |-> FALSE, pr |-> pr, err |-> err]

\* A method call on a nil gopacket.Packet: nil pointer dereference.
Panic == [panic |-> TRUE, pr |-> EmptyPacket, err |-> "nil"]

\* errl != nil && errl.Error() != nil
HasDecodeError(pkt) == pkt.err = "fail"

ReifyNet(pr, pkt) ==
    [pr EXCEPT !.NetProto = pkt.net.proto,
               !.NetSrc = pkt.net.src,
               !.NetDst = pkt.net.dst]

ReifyTrans(pr, pkt) ==
    [pr EXCEPT !.TransProto = pkt.trans.proto,
               !.TransSrc = pkt.trans.src,
               !.TransDst = pkt.trans.dst]

\* Mutant of ReifyTCP: SYN and ACK are read from each other's bit.
ReifyTCPSwapped(pr, pkt) ==
    IF pkt.trans.proto = "TCP"
    THEN [pr EXCEPT !.TCP = [pkt.tcp EXCEPT !["SYN"] = pkt.tcp["ACK"],
                                            !["ACK"] = pkt.tcp["SYN"]]]
    ELSE pr

\* if tcpLayer, ok := transLayer.(*layers.TCP); ok { ... }
ReifyTCP(pr, pkt) ==
    IF pkt.trans.proto = "TCP"
    THEN [pr EXCEPT !.TCP = [FIN |-> pkt.tcp["FIN"],
                             SYN |-> pkt.tcp["SYN"],
                             RST |-> pkt.tcp["RST"],
                             PSH |-> pkt.tcp["PSH"],
                             ACK |-> pkt.tcp["ACK"],
                             URG |-> pkt.tcp["URG"],
                             ECE |-> pkt.tcp["ECE"],
                             CWR |-> pkt.tcp["CWR"],
                             NS |-> pkt.tcp["NS"]]]
    ELSE pr

\* Mutant of ReifyHTTP: the request's fields are copied whatever err is.
ReifyHTTPUnchecked(pr, pkt) ==
    LET req == ReadRequest(pkt.app.payload)
        first == pkt.app.payload[1]
    IN [pr EXCEPT !.HTTP = [UserAgent |-> req.UserAgent,
                            Method |-> IF req.ok THEN req.Method ELSE first[1],
                            Hostname |-> req.Host]]

\* req, err := http.ReadRequest(...); if err == nil { ... }
ReifyHTTP(pr, pkt) ==
    LET req == ReadRequest(pkt.app.payload)
    IN IF req.ok
       THEN [pr EXCEPT !.HTTP = [UserAgent |-> req.UserAgent,
                                 Method |-> req.Method,
                                 Hostname |-> req.Host]]
       ELSE pr

\* Mutant of ReifyApp: AppProto is set only for payloads that parse as HTTP.
ReifyAppHTTPOnly(pr, pkt) ==
    IF pkt.app.present
    THEN IF ReadRequest(pkt.app.payload).ok
         THEN ReifyHTTP([pr EXCEPT !.AppProto = pkt.app.proto], pkt)
         ELSE pr
    ELSE pr

\* appLayer := pkt.ApplicationLayer(); if appLayer != nil { ... }
ReifyApp(pr, pkt) ==
    IF pkt.app.present
    THEN ReifyHTTP([pr EXCEPT !.AppProto = pkt.app.proto], pkt)
    ELSE pr

reifyPacket(pkt) ==
    IF pkt = NilPacket THEN Panic
    ELSE IF HasDecodeError(pkt) THEN Return(EmptyPacket, "decoding packet")
    ELSE LET pr1 == [EmptyPacket EXCEPT !.Length = pkt.length]
         IN IF ~pkt.net.present THEN Return(pr1, Nil)
            ELSE LET pr2 == ReifyNet(pr1, pkt)
                 IN IF ~pkt.trans.present THEN Return(pr2, Nil)
                    ELSE Return(ReifyApp(ReifyTCP(ReifyTrans(pr2, pkt), pkt), pkt), Nil)

(***************************************************************************)
(* SpecReify: reifyPacket applied to every packet of RawPackets.           *)
(***************************************************************************)
NotRun == [panic |-> FALSE, pr |-> EmptyPacket, err |-> "not run"]

PipelineIdle ==
    /\ offline = TRUE
    /\ nworkers = 1
    /\ file = <<>>
    /\ runPc = "start"
    /\ runErr = ""
    /\ handle = "none"
    /\ hpos = 0
    /\ producer = "none"
    /\ packets = <<>>
    /\ closed = FALSE
    /\ num = 0
    /\ wpc = [w \in 1..1 |-> "idle"]
    /\ wnum = [w \in 1..1 |-> 0]
    /\ wpkt = [w \in 1..1 |-> 0]
    /\ started = 0
    /\ observed = <<>>
    /\ taken = <<>>
    /\ returned = <<>>
    /\ crashed = FALSE

InitReify ==
    /\ rpkt \in RawPackets
    /\ rout = NotRun
    /\ PipelineIdle

Reify ==
    /\ rout = NotRun
    /\ rout' = reifyPacket(rpkt)
    /\ UNCHANGED <<rpkt, pvars>>

NextReify == Reify

SpecReify == InitReify /\ [][NextReify]_vars

(***************************************************************************)
(* Spec: Main.Run, Main.NewNetSource, the goroutine behind                 *)
(* packetSource.Packets() and the workers calling NetSource.Record.        *)
(* The channel's buffer (1000 packets in gopacket) is never full for the   *)
(* capture lengths explored, so a send never blocks.                       *)
(***************************************************************************)
ErrPacket ==
    [err |-> "fail", length |-> 1, net |-> NoLayer, trans |-> NoLayer,
     tcp |-> NoFlags, app |-> NoApp]

HTTPPacket ==
    [err |-> "none", length |-> 2,
     net |-> [present |-> TRUE, proto |-> "IPv4", src |-> "10.0.0.1", dst |-> "10.0.0.2"],
     trans |-> [present |-> TRUE, proto |-> "TCP", src |-> "49152", dst |-> "80"],
     tcp |-> [f \in FlagNames |-> f \in {"PSH", "ACK"}],
     app |-> [present |-> TRUE, proto |-> "Payload", payload |-> GetFull]]

CapturedKinds == {ErrPacket, HTTPPacket}

Captures == UNION {[1..n -> CapturedKinds] : n \in 0..MaxPackets}

Workers == 1..nworkers

Init ==
    /\ rpkt = HTTPPacket
    /\ rout = NotRun
    /\ offline \in BOOLEAN
    /\ nworkers \in 1..MaxWorkers
    /\ file \in Captures
    /\ runPc = "start"
    /\ runErr = ""
    /\ handle = "none"
    /\ hpos = 0
    /\ producer = "none"
    /\ packets = <<>>
    /\ closed = FALSE
    /\ num = 0
    /\ wpc = [w \in Workers |-> "idle"]
    /\ wnum = [w \in Workers |-> 0]
    /\ wpkt = [w \in Workers |-> 0]
    /\ started = 0
    /\ observed = <<>>
    /\ taken = <<>>
    /\ returned = <<>>
    /\ crashed = FALSE

\* if err != nil { return nil, fmt.Errorf("open error: %v", err) }
AfterOpen(ok) ==
    IF ok THEN [pc |-> "opened", err |-> "", handle |-> "open"]
    ELSE [pc |-> "failed", err |-> "open error", handle |-> "none"]

\* Mutant of AfterFilter: the error of SetBPFFilter is dropped.
AfterFilterIgnored(ok) ==
    [pc |-> "filtered", err |-> "", handle |-> IF ok THEN "filtered" ELSE "open"]

\* err = h.SetBPFFilter(m.Filter); if err != nil { return nil, ... }
AfterFilter(ok) ==
    IF ok THEN [pc |-> "filtered", err |-> "", handle |-> "filtered"]
    ELSE [pc |-> "failed", err |-> "error setting bpf filter", handle |-> "open"]

\* pcap.OpenOffline(m.Filename) or pcap.OpenLive(m.Iface, ...)
OpenSource ==
    /\ runPc = "start"
    /\ \E ok \in BOOLEAN :
        /\ runPc' = AfterOpen(ok).pc
        /\ runErr' = AfterOpen(ok).err
        /\ handle' = AfterOpen(ok).handle
    /\ UNCHANGED <<rvars, offline, nworkers, file, hpos, producer, packets,
                   closed, num, wpc, wnum, wpkt, started, observed, taken,
                   returned, crashed>>

SetBPFFilter ==
    /\ runPc = "opened"
    /\ \E ok \in BOOLEAN :
        /\ runPc' = AfterFilter(ok).pc
        /\ runErr' = AfterFilter(ok).err
        /\ handle' = AfterFilter(ok).handle
    /\ UNCHANGED <<rvars, offline, nworkers, file, hpos, producer, packets,
                   closed, num, wpc, wnum, wpkt, started, observed, taken,
                   returned, crashed>>

\* packetSource.Packets() starts the goroutine that reads the handle;
\* num := uint64(0); the NetSource is returned to Run.
NewPacketSource ==
    /\ runPc = "filtered"
    /\ producer' = "running"
    /\ num' = 0
    /\ runPc' = "source"
    /\ UNCHANGED <<rvars, offline, nworkers, file, runErr, handle, hpos,
                   packets, closed, wpc, wnum, wpkt, started, observed, taken,
                   returned, crashed>>

\* The mapping directory, the translator and SetupPilosa: each may fail and
\* end Run; otherwise the mapping proxy is started.
RunSetup ==
    /\ runPc = "source"
    /\ \E ok \in BOOLEAN :
        IF ok THEN runPc' = "ready" /\ runErr' = runErr
        ELSE runPc' = "failed" /\ runErr' = "setup"
    /\ UNCHANGED <<rvars, offline, nworkers, file, handle, hpos, producer,
                   packets, closed, num, wpc, wnum, wpkt, started, observed,
                   taken, returned, crashed>>

\* ingester := pdk.NewIngester(src, np, nm, index); return ingester.Run()
RunIngester ==
    /\ runPc = "ready"
    /\ runPc' = "ingesting"
    /\ UNCHANGED <<rvars, offline, nworkers, file, runErr, handle, hpos,
                   producer, packets, closed, num, wpc, wnum, wpkt, started,
                   observed, taken, returned, crashed>>

\* The goroutine of Packets(): NextPacket succeeded, the packet is sent.
ProducerRead ==
    /\ producer = "running"
    /\ ~crashed
    /\ hpos < Len(file)
    /\ hpos' = hpos + 1
    /\ packets' = Append(packets, hpos + 1)
    /\ UNCHANGED <<rvars, offline, nworkers, file, runPc, runErr, handle,
                   producer, closed, num, wpc, wnum, wpkt, started, observed,
                   taken, returned, crashed>>

\* The goroutine of Packets(): NextPacket returned io.EOF (a file only), the
\* channel is closed.  A live handle with nothing to deliver keeps waiting.
ProducerEOF ==
    /\ producer = "running"
    /\ ~crashed
    /\ offline
    /\ hpos = Len(file)
    /\ closed' = TRUE
    /\ producer' = "done"
    /\ UNCHANGED <<rvars, offline, nworkers, file, runPc, runErr, handle, hpos,
                   packets, num, wpc, wnum, wpkt, started, observed, taken,
                   returned, crashed>>

\* Mutant of CounterAdd: the increment is lost.
CounterAddLost(n) == n

\* atomic.AddUint64(n.num, 1)
CounterAdd(n) == n + 1

CanRecord(w) == runPc = "ingesting" /\ ~crashed

RecordAdd(w) ==
    /\ CanRecord(w)
    /\ wpc[w] = "idle"
    /\ started < MaxCalls
    /\ num' = CounterAdd(num)
    /\ started' = started + 1
    /\ wpc' = [wpc EXCEPT ![w] = "added"]
    /\ UNCHANGED <<rvars, offline, nworkers, file, runPc, runErr, handle, hpos,
                   producer, packets, closed, wnum, wpkt, observed, taken,
                   returned, crashed>>

\* num := atomic.LoadUint64(n.num), then the logging decision on num.
RecordLoad(w) ==
    /\ CanRecord(w)
    /\ wpc[w] = "added"
    /\ wnum' = [wnum EXCEPT ![w] = num]
    /\ observed' = Append(observed, num)
    /\ wpc' = [wpc EXCEPT ![w] = "loaded"]
    /\ UNCHANGED <<rvars, offline, nworkers, file, runPc, runErr, handle, hpos,
                   producer, packets, closed, num, wpkt, started, taken,
                   returned, crashed>>

\* Mutant of ChanRest: a packet with a decode error is left in the channel.
ChanRestKeepBad(q) ==
    IF HasDecodeError(file[Head(q)]) THEN q ELSE Tail(q)

\* What a receive leaves in the channel.
ChanRest(q) == Tail(q)

\* <-n.packets: the oldest packet of the channel, or nil once the channel is
\* closed and drained; the call blocks while the channel is open and empty.
RecordRecv(w) ==
    /\ CanRecord(w)
    /\ wpc[w] = "loaded"
    /\ \/ /\ packets # <<>>
          /\ wpkt' = [wpkt EXCEPT ![w] = Head(packets)]
          /\ taken' = Append(taken, Head(packets))
          /\ packets' = ChanRest(packets)
       \/ /\ packets = <<>>
          /\ closed
          /\ wpkt' = [wpkt EXCEPT ![w] = 0]
          /\ UNCHANGED <<taken, packets>>
    /\ wpc' = [wpc EXCEPT ![w] = "received"]
    /\ UNCHANGED <<rvars, offline, nworkers, file, runPc, runErr, handle, hpos,
                   producer, closed, num, wnum, started, observed, returned,
                   crashed>>

Received(w) == IF wpkt[w] = 0 THEN NilPacket ELSE file[wpkt[w]]

\* return reifyPacket(...): the record and the error go to the caller, or
\* the panic of reifyPacket ends the process.
RecordReturn(w) ==
    /\ CanRecord(w)
    /\ wpc[w] = "received"
    /\ LET r == reifyPacket(Received(w))
       IN IF r.panic
          THEN /\ crashed' = TRUE
               /\ UNCHANGED <<returned, wpc>>
          ELSE /\ returned' = Append(returned, [idx |-> wpkt[w], by |-> w,
                                               pr |-> r.pr, err |-> r.err])
               /\ wpc' = [wpc EXCEPT ![w] = "idle"]
               /\ UNCHANGED crashed
    /\ UNCHANGED <<rvars, offline, nworkers, file, runPc, runErr, handle, hpos,
                   producer, packets, closed, num, wnum, wpkt, started,
                   observed, taken>>

Next ==
    \/ OpenSource
    \/ SetBPFFilter
    \/ NewPacketSource
    \/ RunSetup
    \/ RunIngester
    \/ ProducerRead
    \/ ProducerEOF
    \/ \E w \in Workers : RecordAdd(w)
    \/ \E w \in Workers : RecordLoad(w)
    \/ \E w \in Workers : RecordRecv(w)
    \/ \E w \in Workers : RecordReturn(w)

Spec == Init /\ [][Next]_vars

(***************************************************************************)
(* Claims about reifyPacket (checked under SpecReify).                     *)
(***************************************************************************)
Reified == rout # NotRun

\* The decoder got as far as the application layer of rpkt.
ReachedApp ==
    /\ Reified
    /\ ~HasDecodeError(rpkt)
    /\ rpkt.net.present
    /\ rpkt.trans.present
    /\ rpkt.app.present

EmptyHTTP == [Hostname |-> "", UserAgent |-> "", Method |-> ""]

\* C2: whatever the packet, a decode error included, the returned record has
\* Length equal to the packet's metadata length.
C2_LengthAlwaysSet ==
    Reified => rout.pr.Length = rpkt.length

\* C4: for a packet whose application layer the decoder reaches, the HTTP
\* fields are the request's method, host and user agent when the payload
\* parses as an HTTP request (and Method is then non-empty), and all three are
\* empty when it does not; either way the error is nil and the other fields
\* are what the packet's layers give.
C4_HTTPIffParses ==
    ReachedApp =>
        LET req == ReadRequest(rpkt.app.payload)
        IN /\ ~rout.panic
           /\ rout.err = Nil
           /\ (req.ok => /\ rout.pr.HTTP = [Hostname |-> req.Host,
                                           UserAgent |-> req.UserAgent,
                                           Method |-> req.Method]
                         /\ rout.pr.HTTP.Method # "")
           /\ (~req.ok => rout.pr.HTTP = EmptyHTTP)
           /\ rout.pr.Length = rpkt.length
           /\ rout.pr.NetProto = rpkt.net.proto
           /\ rout.pr.NetSrc = rpkt.net.src
           /\ rout.pr.NetDst = rpkt.net.dst
           /\ rout.pr.TransProto = rpkt.trans.proto
           /\ rout.pr.TransSrc = rpkt.trans.src
           /\ rout.pr.TransDst = rpkt.trans.dst
           /\ rout.pr.TCP = rpkt.tcp
           /\ rout.pr.AppProto = rpkt.app.proto

\* A payload that is no HTTP request was decoded: no HTTP field, no error.
C4_Witness ==
    /\ ReachedApp
    /\ rpkt.app.payload = BinaryPayload
    /\ rout.pr.HTTP = EmptyHTTP
    /\ rout.pr.AppProto = "Payload"
    /\ rout.err = Nil

\* C5 as stated: without a decode error, AppProto is set exactly when the
\* packet has an application layer, whatever its other layers.
C5_AppProtoIffAppLayer ==
    (Reified /\ ~HasDecodeError(rpkt)) =>
        (rout.pr.AppProto # "" <=> rpkt.app.present)

\* C5 amended: without a decode error, AppProto is set exactly when the packet
\* has a network layer, a transport layer and an application layer; it is
\* then the application layer's protocol name.
C5_AppProtoIffAllLayers ==
    (Reified /\ ~HasDecodeError(rpkt)) =>
        /\ rout.pr.AppProto # "" <=>
               (rpkt.net.present /\ rpkt.trans.present /\ rpkt.app.present)
        /\ rout.pr.AppProto # "" => rout.pr.AppProto = rpkt.app.proto

\* An application payload right above the network layer: AppProto stays empty.
C5_Witness ==
    /\ Reified
    /\ ~HasDecodeError(rpkt)
    /\ rpkt.net.present
    /\ ~rpkt.trans.present
    /\ rpkt.app.present
    /\ rout.pr.AppProto = ""
    /\ rout.err = Nil

Distinct(seq) == \A i, j \in 1..Len(seq) : i # j => seq[i] # seq[j]

Range(seq) == {seq[i] : i \in 1..Len(seq)}

\* C1: over a capture file of K packets a single caller gets the K packets
\* in the file's order, and every call that finds the channel closed and
\* drained returns to its caller: the process never dies of a panic.
C1_EndOfStreamReturned ==
    offline =>
        /\ ~crashed
        /\ nworkers = 1 =>
               \A i \in 1..Len(returned) :
                   returned[i].idx = i /\ i <= Len(file)

\* C3: the counter equals the number of Record calls made, no two calls
\* observe the same count, and once every call has read its count the values
\* read are exactly 1..N.
C3_CountsExact ==
    /\ num = started
    /\ Distinct(observed)
    /\ Len(observed) = started => Range(observed) = 1..started

\* C7: with a single caller the i-th record returned is the decoding of the
\* i-th packet of the capture, decode errors included, and the packets are
\* received in capture order, each once.
C7_ArrivalOrder ==
    nworkers = 1 =>
        /\ \A i \in 1..Len(taken) : taken[i] = i
        /\ Len(taken) <= hpos
        /\ Len(returned) <= Len(taken)
        /\ Len(taken) <= Len(returned) + 1
        /\ \A i \in 1..Len(returned) :
               /\ returned[i].idx = i
               /\ returned[i].pr = reifyPacket(file[i]).pr
               /\ returned[i].err = reifyPacket(file[i]).err
               /\ returned[i].err # Nil <=> file[i].err = "fail"

\* A decode error was returned for packet 1 and the next call returned
\* packet 2.
C7_Witness ==
    /\ nworkers = 1
    /\ Len(returned) = 2
    /\ returned[1].idx = 1
    /\ returned[1].err = "decoding packet"
    /\ returned[2].idx = 2
    /\ returned[2].err = Nil

SetupErrors == {"open error", "error setting bpf filter"}

\* C8: the packet source exists, the handle is read and Record is called
\* only with the filter installed; when the open or the filter fails, Run has
\* failed with that error, no goroutine reads the handle, no packet was
\* pulled, the ingester was not started and no record was produced.
C8_FilterBeforePackets ==
    /\ (\/ producer # "none"
        \/ hpos > 0
        \/ started > 0
        \/ runPc \in {"source", "ready", "ingesting"}) => handle = "filtered"
    /\ runErr \in SetupErrors =>
           /\ runPc = "failed"
           /\ producer = "none"
           /\ hpos = 0
           /\ packets = <<>>
           /\ started = 0
           /\ returned = <<>>
    /\ (runPc = "failed" /\ handle # "filtered") => runErr \in SetupErrors
    /\ (runErr = "open error") <=> (runPc = "failed" /\ handle = "none")
    /\ (runErr = "error setting bpf filter") <=> (runPc = "failed" /\ handle = "open")

\* The filter could not be installed and Run failed with nothing started.
C8_Witness ==
    /\ runPc = "failed"
    /\ runErr = "error setting bpf filter"
    /\ handle = "open"
    /\ producer = "none"
    /\ hpos = 0

C10_ExactlyOnce ==
    /\ Distinct(taken)
    /\ Distinct([i \in 1..Len(returned) |-> returned[i].idx])
    /\ (crashed \/ \A w \in Workers : wpc[w] = "idle") =>
           Range(taken) = {returned[i].idx : i \in 1..Len(returned)}

====
